---- MODULE Spec2Model ----
(***************************************************************************)
(* Water-fountain particle simulation (final_code.py): the Particle /      *)
(* Fountain pair and the main_loop that drives them.                       *)
(*                                                                         *)
(* Arithmetic.  The program computes with floats; the model computes with  *)
(* exact fixed-point integers.  Time steps are counted in 1/FPS seconds    *)
(* (dtime = 1 is the 1/FPS that main_loop passes, dtime = FPS is one       *)
(* second), velocities are stored multiplied by VelScale and positions     *)
(* multiplied by PosScale, so that for integer gravity, wind and spawn     *)
(* velocities every product of Particle.update is an integer.              *)
(***************************************************************************)
EXTENDS Integers, Sequences, FiniteSets, TLC

VARIABLES
    particles_per_frame, \* Fountain.particles_per_frame
    max_particles,       \* Fountain.max_particles
    spread,              \* Fountain.spread
    gravity,             \* Fountain.gravity
    wind,                \* Fountain.wind
    source_x,            \* Fountain.source_x (pixels)
    source_y,            \* Fountain.source_y (pixels)
    particles,           \* Fountain.particles, a sequence of Particle records
    screen,              \* the draw calls of the last Fountain.render
    dtime,               \* argument of the last Fountain.update, 0 before the first
    advanced,            \* the pool of the last Fountain.update right after each
                         \* particle.update, before the bounds check
    pc,                  \* position of main_loop
    events,              \* the pygame event queue
    slept,               \* result of the last limit_frame_rate
    quitRenders,         \* Fountain.render calls made while a QUIT was queued
    quitSteps            \* Fountain.update calls made while a QUIT was queued

fvars == <<particles_per_frame, max_particles, spread, gravity, wind,
           source_x, source_y>>
lvars == <<pc, events, slept, quitRenders, quitSteps>>
vars == <<particles_per_frame, max_particles, spread, gravity, wind,
          source_x, source_y, particles, screen, dtime, advanced,
          pc, events, slept, quitRenders, quitSteps>>

----------------------------------------------------------------------------
(* Program constants *)

FPS == 60
WIDTH == 800
HEIGHT == 600
MAX_PARTICLES == 5000

COLOR_BLUE == <<0, 0, 255, 50>>
COLOR_CYAN == <<0, 255, 255, 50>>
COLOR_SKY_BLUE == <<135, 206, 235>>
COLOR_WHITE == <<255, 255, 255>>
COLOR_GRAY == <<169, 169, 169>>
COLOR_DARK_GRAY == <<105, 105, 105>>

(* Fixed-point scales: velocity * VelScale, position * PosScale *)
VelScale == FPS
PosScale == FPS * FPS

----------------------------------------------------------------------------
(* Bounds of the model *)

MaxPool == 2
MaxEvents == 2

(* Constructor arguments explored *)
MaxParticlesSet == {-1, 1, MAX_PARTICLES}
RateSet == {0, 1, 2}
SpreadSet == {0, 1}
GravitySet == {0, 800}
WindSet == {-300, 0, 300}

(* Time steps explored, in 1/FPS seconds: 1/FPS s and 1 s *)
DtSet == {1, FPS}

----------------------------------------------------------------------------
(* Particle *)

Particle0 == [x |-> 0, y |-> 0, v_x |-> 0, v_y |-> 0, color |-> COLOR_BLUE]

(* Variant: velocity integrated before position *)
ParticleUpdate_VelocityFirst(p, dt, g, w) ==
    [p EXCEPT !.x = p.x + p.v_x * dt + (w * VelScale) * dt,
              !.y = p.y + (p.v_y + g * dt) * dt,
              !.v_y = p.v_y + g * dt]

ParticleUpdate(p, dt, g, w) ==
    [p EXCEPT !.x = p.x + p.v_x * dt + (w * VelScale) * dt,
              !.y = p.y + p.v_y * dt,
              !.v_y = p.v_y + g * dt]

ParticleSet(p, x, y, v_x, v_y, color) ==
    [p EXCEPT !.x = x, !.y = y, !.v_x = v_x, !.v_y = v_y, !.color = color]

Trunc(n, d) == IF n >= 0 THEN n \div d ELSE -((-n) \div d)

ParticleDraw(p) ==
    <<"circle", p.color, Trunc(p.x, PosScale), Trunc(p.y, PosScale), 2>>

----------------------------------------------------------------------------
(* Fountain *)

(* The random draws of one init_particle call: v_x = radius * cos(direction)
   with radius in [0, spread), v_y = -uniform(150, 200), and the colour. *)
VxDraws(s) == IF s > 0 THEN {-(s * VelScale - 1), s * VelScale - 1} ELSE {0}
VyDraws == {-200 * VelScale, -150 * VelScale}
ColorDraws == {COLOR_BLUE, COLOR_CYAN}
Draws(s) == [v_x : VxDraws(s), v_y : VyDraws, color : ColorDraws]

(* Variant: a spawn that keeps the particle's horizontal position *)
init_particle_KeepX(p, d, sx, sy) ==
    ParticleSet(p, p.x, (sy - 230) * PosScale, d.v_x, d.v_y, d.color)

init_particle(p, d, sx, sy) ==
    ParticleSet(p, sx * PosScale, (sy - 230) * PosScale, d.v_x, d.v_y, d.color)

(* Variant: an upper bound on height is enforced as well *)
OutOfBounds_Ceiling(p) ==
    \/ p.y > (HEIGHT - 10) * PosScale
    \/ p.y < 0
    \/ p.x < 0
    \/ p.x > WIDTH * PosScale

(* Variant: the left edge is not checked *)
OutOfBounds_NoLeft(p) ==
    \/ p.y > (HEIGHT - 10) * PosScale
    \/ p.x > WIDTH * PosScale

OutOfBounds(p) ==
    \/ p.y > (HEIGHT - 10) * PosScale
    \/ p.x < 0
    \/ p.x > WIDTH * PosScale

(* All sequences that pick one element from each set of a sequence of sets *)
RECURSIVE Choices(_)
Choices(S) ==
    IF S = <<>> THEN {<<>>}
    ELSE {<<h>> \o t : h \in Head(S), t \in Choices(Tail(S))}

Spawns == {init_particle(Particle0, d, source_x, source_y) : d \in Draws(spread)}

NewCount == IF particles_per_frame > 0 THEN particles_per_frame ELSE 0

FountainInit(mp, ppf, sp, g, w) ==
    /\ particles_per_frame = ppf
    /\ max_particles = mp
    /\ spread = sp
    /\ gravity = g
    /\ wind = w
    /\ source_x = WIDTH \div 2
    /\ source_y = HEIGHT - 50
    /\ particles = <<>>

Recycle(p) ==
    IF OutOfBounds(p)
    THEN {init_particle(p, d, source_x, source_y) : d \in Draws(spread)}
    ELSE {p}

FountainUpdate(dt) ==
    /\ Len(particles) + NewCount <= MaxPool
    /\ \E new \in Choices([i \in 1..NewCount |-> Spawns]) :
         LET pool == particles \o new
             adv == [i \in 1..Len(pool) |->
                        ParticleUpdate(pool[i], dt, gravity, wind)]
         IN /\ advanced' = adv
            /\ particles' \in Choices([i \in 1..Len(pool) |-> Recycle(adv[i])])
    /\ dtime' = dt
    /\ UNCHANGED <<fvars, screen>>

Structure ==
    << <<"fill", COLOR_SKY_BLUE>>,
       <<"rect", COLOR_DARK_GRAY, source_x - 50, source_y, 100, 20>>,
       <<"rect", COLOR_GRAY, source_x - 60, source_y + 20, 120, 20>>,
       <<"rect", COLOR_WHITE, source_x - 12, source_y - 200, 25, 200>>,
       <<"polygon", COLOR_WHITE, <<source_x - 12, source_y - 200>>,
                                 <<source_x + 12, source_y - 200>>,
                                 <<source_x, source_y - 230>> >> >>

(* Variant: drawing stores the rounded pixel position back into the particle *)
FountainRender_StoreRounded ==
    /\ screen' = Structure
                 \o [i \in 1..Len(particles) |-> ParticleDraw(particles[i])]
                 \o << <<"flip">> >>
    /\ particles' = [i \in 1..Len(particles) |->
                       [particles[i] EXCEPT
                          !.x = Trunc(particles[i].x, PosScale) * PosScale,
                          !.y = Trunc(particles[i].y, PosScale) * PosScale]]
    /\ UNCHANGED <<fvars, dtime, advanced>>

FountainRender ==
    /\ screen' = Structure
                 \o [i \in 1..Len(particles) |-> ParticleDraw(particles[i])]
                 \o << <<"flip">> >>
    /\ UNCHANGED <<fvars, particles, dtime, advanced>>

----------------------------------------------------------------------------
(* The Fountain driven by an arbitrary host *)

Construct ==
    /\ \E mp \in MaxParticlesSet, ppf \in RateSet, sp \in SpreadSet,
          g \in GravitySet, w \in WindSet : FountainInit(mp, ppf, sp, g, w)
    /\ screen = <<>>
    /\ dtime = 0
    /\ advanced = <<>>
    /\ events = <<>>
    /\ slept = FALSE
    /\ quitRenders = 0
    /\ quitSteps = 0

Init == Construct /\ pc = "idle"

Update == \E dt \in DtSet : FountainUpdate(dt) /\ UNCHANGED lvars

Render == FountainRender /\ UNCHANGED lvars

Next == Update \/ Render

Spec == Init /\ [][Next]_vars

----------------------------------------------------------------------------
(* main_loop *)

QuitPending == \E i \in 1..Len(events) : events[i] = "QUIT"

LoopInit == Construct /\ pc = "render"

LoopRender ==
    /\ pc = "render"
    /\ FountainRender
    /\ pc' = "update"
    /\ quitRenders' = IF QuitPending THEN quitRenders + 1 ELSE quitRenders
    /\ UNCHANGED <<events, slept, quitSteps>>

LoopUpdate ==
    /\ pc = "update"
    /\ FountainUpdate(1)
    /\ pc' = "poll"
    /\ quitSteps' = IF QuitPending THEN quitSteps + 1 ELSE quitSteps
    /\ UNCHANGED <<events, slept, quitRenders>>

(* Variant: only the first queued event is examined *)
handle_events_FirstOnly == ~(Len(events) > 0 /\ events[1] = "QUIT")

handle_events == ~QuitPending

Poll ==
    /\ pc = "poll"
    /\ events' = <<>>
    /\ pc' = IF handle_events THEN "throttle" ELSE "done"
    /\ UNCHANGED <<fvars, particles, screen, dtime, advanced,
                   slept, quitRenders, quitSteps>>

Throttle ==
    /\ pc = "throttle"
    /\ slept' \in BOOLEAN
    /\ pc' = "render"
    /\ UNCHANGED <<fvars, particles, screen, dtime, advanced,
                   events, quitRenders, quitSteps>>

PostEvent ==
    /\ pc \in {"render", "update", "poll", "throttle"}
    /\ Len(events) < MaxEvents
    /\ \E e \in {"QUIT", "OTHER"} : events' = Append(events, e)
    /\ UNCHANGED <<fvars, particles, screen, dtime, advanced,
                   pc, slept, quitRenders, quitSteps>>

LoopNext == LoopRender \/ LoopUpdate \/ Poll \/ Throttle \/ PostEvent

LoopSpec == LoopInit /\ [][LoopNext]_vars

----------------------------------------------------------------------------
(* Properties *)

Min(a, b) == IF a < b THEN a ELSE b

ApexX == source_x * PosScale
ApexY == (source_y - 230) * PosScale

InLaunchBand(v) == -200 * VelScale <= v /\ v <= -150 * VelScale

(* A step in which Fountain.update was called *)
UpdateStep == <<particles, advanced, dtime>>' # <<particles, advanced, dtime>>

(* A step in which Fountain.render was called *)
RenderStep == screen' # screen

(* C1: for max_particles > 0 and particles_per_frame >= 0 the pool size
   after any number of Fountain.update calls is at most max_particles. *)
C1_PoolCap ==
    (max_particles > 0 /\ particles_per_frame >= 0)
        => Len(particles) <= max_particles

(* C2: each Fountain.update call appends exactly
   min(particles_per_frame, max_particles - size before the call) particles;
   none when the pool is already at max_particles. *)
C2_EmissionCount ==
    [][(UpdateStep /\ max_particles > 0 /\ Len(particles) <= max_particles)
          => Len(particles') - Len(particles)
               = Min(particles_per_frame, max_particles - Len(particles))]_vars

(* C3: within one Fountain.update call every particle that is out of bounds
   after its integration (y > HEIGHT - 10, x < 0 or x > WIDTH) is at the apex
   with v_y in [-200, -150] when the call returns, and a particle that is in
   bounds after integration is left as integrated. *)
C3_RecycleInStep ==
    /\ Len(advanced) = Len(particles)
    /\ \A i \in 1..Len(advanced) :
         IF \/ advanced[i].y > (HEIGHT - 10) * PosScale
            \/ advanced[i].x < 0
            \/ advanced[i].x > WIDTH * PosScale
         THEN /\ particles[i].x = ApexX
              /\ particles[i].y = ApexY
              /\ InLaunchBand(particles[i].v_y)
         ELSE particles[i] = advanced[i]

(* C3 witness: an update returned in which one particle had left through the
   bottom or a side and was recycled while another one stayed in flight *)
C3_Witness ==
    \E i, j \in 1..Len(advanced) :
        /\ OutOfBounds(advanced[i])
        /\ ~OutOfBounds(advanced[j])
        /\ particles[j] = advanced[j]

(* C4: right after any init_particle, for a new particle or for a recycled
   one, v_y is negative and within [-200, -150] whatever spread, gravity and
   wind are, and the position is the apex (source_x, source_y - 230), not a
   function of where the particle was. *)
C4_SpawnState ==
    \A p \in {Particle0} \cup {particles[i] : i \in 1..Len(particles)}
                         \cup {advanced[i] : i \in 1..Len(advanced)} :
      \A d \in Draws(spread) :
        LET q == init_particle(p, d, source_x, source_y)
        IN /\ q.x = (WIDTH \div 2) * PosScale
           /\ q.y = (HEIGHT - 50 - 230) * PosScale
           /\ q.v_y < 0
           /\ InLaunchBand(q.v_y)

(* C4 witness: a particle that had drifted off the apex column was recycled *)
C4_Witness ==
    \E i \in 1..Len(advanced) :
        /\ OutOfBounds(advanced[i])
        /\ advanced[i].x # ApexX
        /\ particles[i].x = ApexX
        /\ particles[i].y = ApexY

(* C5: Particle.update advances the position with the velocity held before
   the call and updates v_y last: x' = x + (v_x + wind) * dt,
   y' = y + v_y * dt, v_y' = v_y + gravity * dt, v_x and color unchanged;
   from (0, 0, 0, 0) with dt = 1, gravity = 10, wind = 0: y' = 0, v_y' = 10. *)
C5_IntegrationOrder ==
    [][/\ LET q == ParticleUpdate(Particle0, FPS, 10, 0)
          IN q.y = 0 /\ q.v_y = 10 * VelScale /\ q.x = 0 /\ q.v_x = 0
       /\ UpdateStep =>
            \A i \in 1..Len(particles) :
               /\ advanced'[i].x = particles[i].x
                       + (particles[i].v_x + wind * VelScale) * dtime'
               /\ advanced'[i].y = particles[i].y + particles[i].v_y * dtime'
               /\ advanced'[i].v_y = particles[i].v_y + gravity * dtime'
               /\ advanced'[i].v_x = particles[i].v_x
               /\ advanced'[i].color = particles[i].color]_vars

(* C5 witness: a particle already in the pool was integrated over one second
   under non-zero gravity and wind *)
C5_Witness ==
    /\ Len(advanced) > NewCount
    /\ dtime = FPS
    /\ gravity # 0
    /\ wind # 0

(* C6: the pool size never decreases, and once it equals max_particles it
   stays constant. *)
C6_PoolMonotoneThenConstant ==
    [][/\ Len(particles') >= Len(particles)
       /\ Len(particles) = max_particles
            => Len(particles') = Len(particles)]_vars

(* C7: a Fountain constructed with a negative max_particles is rejected, so
   no such Fountain is ever stepped. *)
C7_NegativeCapRejected ==
    max_particles < 0 => (dtime = 0 /\ particles = <<>>)

(* C9: Fountain.render and Particle.draw leave the pool (length, order and
   every particle's position, velocity and color) and the Fountain's
   configuration unchanged. *)
C9_RenderReadOnly ==
    [][RenderStep => /\ particles' = particles
                     /\ fvars' = fvars
                     /\ dtime' = dtime]_vars

(* C9 witness: the screen shows the current, non-empty pool, one particle of
   which is at a fractional pixel position *)
C9_Witness ==
    /\ Len(particles) > 0
    /\ Len(screen) = Len(Structure) + Len(particles) + 1
    /\ \A i \in 1..Len(particles) :
          screen[Len(Structure) + i] = ParticleDraw(particles[i])
    /\ \E i \in 1..Len(particles) : particles[i].x % PosScale # 0

(* C10: with the default canvas the apex (400, 320) is in bounds, and when
   Fountain.update returns every particle has 0 <= x <= WIDTH and
   y <= HEIGHT - 10; a particle above the canvas (y < 0) within the
   horizontal range is left in flight. *)
C10_InBoundsAfterUpdate ==
    /\ source_x = 400 /\ source_y - 230 = 320
    /\ \A i \in 1..Len(particles) :
          /\ 0 <= particles[i].x
          /\ particles[i].x <= WIDTH * PosScale
          /\ particles[i].y <= (HEIGHT - 10) * PosScale
    /\ \A i \in 1..Len(advanced) :
          (/\ advanced[i].y < 0
           /\ 0 <= advanced[i].x
           /\ advanced[i].x <= WIDTH * PosScale) => particles[i] = advanced[i]

(* C10 witness: an update returned leaving a particle in flight above the
   canvas, within the horizontal range *)
C10_Witness ==
    \E i \in 1..Len(particles) :
        /\ particles[i].y < 0
        /\ 0 <= particles[i].x /\ particles[i].x <= WIDTH * PosScale
        /\ particles[i] = advanced[i]

(* C8: main_loop runs render, update, poll, throttle in that order; once a
   QUIT is queued at most one more render and one more update happen, a poll
   that finds a QUIT ends the loop, and nothing runs after that. *)
C8_LoopOrderAndQuit ==
    [][/\ pc' # pc => <<pc, pc'>> \in { <<"render", "update">>,
                                       <<"update", "poll">>,
                                       <<"poll", "throttle">>,
                                       <<"poll", "done">>,
                                       <<"throttle", "render">> }
       /\ RenderStep => pc = "render"
       /\ UpdateStep => pc = "update"
       /\ slept' # slept => pc = "throttle"
       /\ (pc = "poll" /\ QuitPending /\ pc' # pc) => pc' = "done"
       /\ quitRenders' <= 1
       /\ quitSteps' <= 1
       /\ pc = "done" => UNCHANGED vars]_vars

(* C8 witness: the loop ended after a QUIT that arrived during the throttle:
   one more render and one more update ran before the poll *)
C8_Witness ==
    /\ pc = "done"
    /\ quitRenders = 1
    /\ quitSteps = 1
    /\ dtime = 1

====
